---- MODULE Spec2Model ----
\* Mobile Terminated (MT) information-element encoder of sbd-rs (src/mt/mod.rs):
\* DispositionFlags, Header, Payload and InformationElement written to a
\* std::io::Write.  The writer is part of the state: an in-memory Vec<u8>, a
\* writer that starts failing at some write call, or a writer that accepts only
\* a prefix of what it is handed (a short write).
EXTENDS Integers, Sequences, FiniteSets, TLC

\* ------------------------------------------------------------------ bounds
\* Number of codec calls made on one writer.
MaxCalls == 2
\* Number of DispositionFlags calls made on one writer (SpecFlags).
MaxFlagCalls == 1
\* A failing writer fails from its k-th write call on, k in 1..MaxFailAt.
MaxFailAt == 6
\* A short writer accepts at most c bytes per write call, c in 1..MaxChunk.
MaxChunk == 2

\* --------------------------------------------------------------- constants
\* "valid range is 1-1890"
MaxPayloadLen == 1890

U8  == 2^8
U16 == 2^16
\* client_msg_id is a u32; TLC's integers end at 2^31 - 1, so the ids drawn
\* below stay under 2^31 (all four bytes of the field are still exercised)
IdHigh == 127 * 2^24 + 254 * 2^16 + 3 * 2^8 + 232

Min(a, b) == IF a < b THEN a ELSE b

\* ------------------------------------------------------------------ inputs
BoolOf(b) == IF b THEN 1 ELSE 0

AllFlags ==
    [flush_queue : BOOLEAN, send_ring_alert : BOOLEAN, update_location : BOOLEAN,
     high_priority : BOOLEAN, assign_mtmsn : BOOLEAN]

\* imei of the tests: bytes 0..14, none of them an ASCII digit
ImeiTest == [i \in 1..15 |-> i - 1]
\* "300034010123450" in ASCII
ImeiDigits == <<51, 48, 48, 48, 51, 52, 48, 49, 48, 49, 50, 51, 52, 53, 48>>

\* the header of the tests, and one with other bytes everywhere
HeaderTest ==
    [kind |-> "H", client_msg_id |-> 9999, imei |-> ImeiTest, disposition_flags |-> 9999]
HeaderDigits ==
    [kind |-> "H", client_msg_id |-> IdHigh, imei |-> ImeiDigits,
     disposition_flags |-> U16 - 1]
HeaderMixed ==
    [kind |-> "H", client_msg_id |-> 0, imei |-> [ImeiDigits EXCEPT ![15] = U8 - 1],
     disposition_flags |-> 59]

Headers == {HeaderTest, HeaderDigits, HeaderMixed}

PayloadLens == {0, MaxPayloadLen, MaxPayloadLen + 1, U16 - 1, U16}

\* payload bytes that differ from position to position
MkPayload(n) == [kind |-> "P", payload |-> [i \in 1..n |-> (i * 31 + 7) % U8]]

Payloads == {MkPayload(n) : n \in PayloadLens}

\* the payloads written as elements of a sequence of elements
ElementPayloadLens == {0, 3, MaxPayloadLen, U16}

\* ------------------------------------------------------------------ writer
\* failAt = 0: never fails; chunk = 0: accepts every byte it is handed.
VecWriter == [buf |-> <<>>, calls |-> 0, failAt |-> 0, chunk |-> 0]

Writers ==
    {VecWriter}
    \cup {[VecWriter EXCEPT !.failAt = k] : k \in 1..MaxFailAt}
    \cup {[VecWriter EXCEPT !.chunk = c] : c \in 1..MaxChunk}

\* std::io::Write::write: one call, Ok(number of bytes accepted) or Err.
Write(w, b) ==
    IF w.failAt > 0 /\ w.calls + 1 >= w.failAt
    THEN [w |-> [w EXCEPT !.calls = @ + 1], ok |-> FALSE, n |-> 0]
    ELSE LET k == IF w.chunk = 0 THEN Len(b) ELSE Min(Len(b), w.chunk)
         IN [w |-> [w EXCEPT !.calls = @ + 1, !.buf = @ \o SubSeq(b, 1, k)],
             ok |-> TRUE, n |-> k]

\* std::io::Write::write_all: write until the whole buffer is accepted.
RECURSIVE write_all(_, _)
write_all(w, b) ==
    IF Len(b) = 0 THEN [w |-> w, ok |-> TRUE]
    ELSE LET r == Write(w, b)
         IN IF ~r.ok \/ r.n = 0 THEN [w |-> r.w, ok |-> FALSE]
            ELSE write_all(r.w, SubSeq(b, r.n + 1, Len(b)))

\* byteorder::WriteBytesExt
write_u8(w, n) == write_all(w, <<n % U8>>)
write_u16_be(w, n) == write_all(w, <<(n \div U8) % U8, n % U8>>)
\* the four bytes least significant first
write_u32_le(w, n) ==
    write_all(w, <<n % U8, (n \div U8) % U8, (n \div (U8 * U8)) % U8,
                   (n \div (U8 * U8 * U8)) % U8>>)
write_u32_be(w, n) ==
    write_all(w, <<(n \div (U8 * U8 * U8)) % U8, (n \div (U8 * U8)) % U8,
                   (n \div U8) % U8, n % U8>>)

\* Result<usize, Error>, or the call panicked
Ok(n)  == [tag |-> "Ok", n |-> n]
Err    == [tag |-> "Err", n |-> 0]
Panic  == [tag |-> "Panic", n |-> 0]
Ret(w, res) == [w |-> w, res |-> res]

\* ------------------------------------------------------- DispositionFlags
\* the five flags packed into bits 0..4, no bit skipped
DispositionFlags_encode_dense(f) ==
    ( BoolOf(f.assign_mtmsn) * 2^4
    + BoolOf(f.high_priority) * 2^3
    + BoolOf(f.update_location) * 2^2
    + BoolOf(f.send_ring_alert) * 2^1
    + BoolOf(f.flush_queue) ) % U16

\* the gap left at bit 3 instead of bit 2
DispositionFlags_encode_gap3(f) ==
    ( BoolOf(f.assign_mtmsn) * 2^5
    + BoolOf(f.high_priority) * 2^4
    + BoolOf(f.update_location) * 2^2
    + BoolOf(f.send_ring_alert) * 2^1
    + BoolOf(f.flush_queue) ) % U16

DispositionFlags_encode(f) ==
    ( BoolOf(f.assign_mtmsn) * 2^5
    + BoolOf(f.high_priority) * 2^4
    + BoolOf(f.update_location) * 2^3
    + BoolOf(f.send_ring_alert) * 2^1
    + BoolOf(f.flush_queue) ) % U16

DispositionFlags_write(f, w) ==
    LET r == write_u16_be(w, DispositionFlags_encode(f))
    IN IF ~r.ok THEN Ret(r.w, Err) ELSE Ret(r.w, Ok(2))

\* ------------------------------------------------------------------ Header
Header_len(h) == 21

IsAsciiDigits(imei) == \A i \in 1..Len(imei) : imei[i] \in 48..57

\* write that refuses an imei that is not made of ASCII digits
Header_write_validating(h, w) ==
    IF ~IsAsciiDigits(h.imei) THEN Ret(w, Err) ELSE
    LET r1 == write_u8(w, 65) IN
    IF ~r1.ok THEN Ret(r1.w, Err) ELSE
    LET r2 == write_u16_be(r1.w, 21) IN
    IF ~r2.ok THEN Ret(r2.w, Err) ELSE
    LET r3 == write_u32_be(r2.w, h.client_msg_id) IN
    IF ~r3.ok THEN Ret(r3.w, Err) ELSE
    LET r4 == Write(r3.w, h.imei) IN
    IF ~r4.ok THEN Ret(r4.w, Err) ELSE
    LET r5 == write_u16_be(r4.w, h.disposition_flags) IN
    IF ~r5.ok THEN Ret(r5.w, Err) ELSE
    Ret(r5.w, Ok(24))

Header_write(h, w) ==
    LET r1 == write_u8(w, 65) IN
    IF ~r1.ok THEN Ret(r1.w, Err) ELSE
    LET r2 == write_u16_be(r1.w, 21) IN
    IF ~r2.ok THEN Ret(r2.w, Err) ELSE
    LET r3 == write_u32_be(r2.w, h.client_msg_id) IN
    IF ~r3.ok THEN Ret(r3.w, Err) ELSE
    LET r4 == Write(r3.w, h.imei) IN
    IF ~r4.ok THEN Ret(r4.w, Err) ELSE
    LET r5 == write_u16_be(r4.w, h.disposition_flags) IN
    IF ~r5.ok THEN Ret(r5.w, Err) ELSE
    Ret(r5.w, Ok(24))

\* the buffer, or a panic when write fails
Header_to_vec(h) ==
    LET r == Header_write(h, VecWriter)
    IN IF r.res.tag = "Ok" THEN [buffer |-> r.w.buf, res |-> Ok(Len(r.w.buf))]
       ELSE [buffer |-> <<>>, res |-> Panic]

\* ----------------------------------------------------------------- Payload
Payload_len(p) == Len(p.payload)

\* the length field counting the three leading bytes too
Payload_write_total_len(p, w) ==
    LET r1 == write_u8(w, 66) IN
    IF ~r1.ok THEN Ret(r1.w, Err) ELSE
    LET n == Len(p.payload) IN
    IF n >= U16 THEN Ret(r1.w, Panic) ELSE
    LET r2 == write_u16_be(r1.w, (3 + n) % U16) IN
    IF ~r2.ok THEN Ret(r2.w, Err) ELSE
    LET r3 == Write(r2.w, p.payload) IN
    IF ~r3.ok THEN Ret(r3.w, Err) ELSE
    Ret(r3.w, Ok(3 + n))

Payload_write(p, w) ==
    LET r1 == write_u8(w, 66) IN
    IF ~r1.ok THEN Ret(r1.w, Err) ELSE
    LET n == Len(p.payload) IN
    IF n >= U16 THEN Ret(r1.w, Panic) ELSE
    LET r2 == write_u16_be(r1.w, n) IN
    IF ~r2.ok THEN Ret(r2.w, Err) ELSE
    LET r3 == Write(r2.w, p.payload) IN
    IF ~r3.ok THEN Ret(r3.w, Err) ELSE
    Ret(r3.w, Ok(3 + n))

\* ------------------------------------------------------ InformationElement
InformationElements == Headers \cup {MkPayload(n) : n \in ElementPayloadLens}

\* an element with nothing in it left out
InformationElement_write_skip_empty(e, w) ==
    IF e.kind = "H" THEN Header_write(e, w)
    ELSE IF Len(e.payload) = 0 THEN Ret(w, Ok(0))
    ELSE Payload_write(e, w)

InformationElement_write(e, w) ==
    IF e.kind = "H" THEN Header_write(e, w) ELSE Payload_write(e, w)

\* ------------------------------------------------------------------- state
VARIABLES
    wtr,       \* the writer the calls are made on
    pre,       \* the bytes that writer held before the last call
    hist,      \* the calls made so far: operation, argument, result
    vec,       \* the Vec<u8> the last Header::to_vec returned
    panicked   \* a call panicked: the thread is unwinding

vars == <<wtr, pre, hist, vec, panicked>>

Init ==
    /\ wtr \in Writers
    /\ pre = <<>>
    /\ hist = <<>>
    /\ vec = <<>>
    /\ panicked = FALSE

Call(op, arg, r) ==
    /\ wtr' = r.w
    /\ pre' = wtr.buf
    /\ hist' = Append(hist, [op |-> op, arg |-> arg, res |-> r.res])
    /\ panicked' = (r.res.tag = "Panic")

HeaderWrite(h) ==
    /\ ~panicked /\ Len(hist) < MaxCalls
    /\ Call("Header::write", h, Header_write(h, wtr))
    /\ UNCHANGED vec

HeaderToVec(h) ==
    /\ ~panicked /\ Len(hist) < MaxCalls
    /\ LET r == Header_to_vec(h)
       IN /\ Call("Header::to_vec", h, Ret(wtr, r.res))
          /\ vec' = r.buffer

PayloadWrite(p) ==
    /\ ~panicked /\ Len(hist) < MaxCalls
    /\ Call("Payload::write", p, Payload_write(p, wtr))
    /\ UNCHANGED vec

InformationElementWrite(e) ==
    /\ ~panicked /\ Len(hist) < MaxCalls
    /\ Call("InformationElement::write", e, InformationElement_write(e, wtr))
    /\ UNCHANGED vec

DispositionFlagsEncode(f) ==
    /\ ~panicked /\ Len(hist) < MaxFlagCalls
    /\ Call("DispositionFlags::encode", f, Ret(wtr, Ok(DispositionFlags_encode(f))))
    /\ UNCHANGED vec

DispositionFlagsWrite(f) ==
    /\ ~panicked /\ Len(hist) < MaxFlagCalls
    /\ Call("DispositionFlags::write", f, DispositionFlags_write(f, wtr))
    /\ UNCHANGED vec

Next ==
    \/ \E h \in Headers : HeaderWrite(h)
    \/ \E h \in Headers : HeaderToVec(h)
    \/ \E p \in Payloads : PayloadWrite(p)
    \/ \E e \in InformationElements : InformationElementWrite(e)

Spec == Init /\ [][Next]_vars

NextFlags ==
    \/ \E f \in AllFlags : DispositionFlagsEncode(f)
    \/ \E f \in AllFlags : DispositionFlagsWrite(f)

SpecFlags == Init /\ [][NextFlags]_vars

Last == hist[Len(hist)]
Called == Len(hist) > 0

\* ------------------------------------------------------------- properties
\* the writer is an in-memory Vec<u8>: it never fails and accepts every byte
InMemory == wtr.failAt = 0 /\ wtr.chunk = 0

\* the bytes the last call appended, and whether it kept the earlier ones
Appended == SubSeq(wtr.buf, Len(pre) + 1, Len(wtr.buf))
KeptEarlier == Len(pre) <= Len(wtr.buf) /\ SubSeq(wtr.buf, 1, Len(pre)) = pre

IsBytes(b) == \A i \in 1..Len(b) : b[i] \in 0..(U8 - 1)

\* b is the 24-byte MT header element of h, read back field by field
IsHeaderElement(b, h) ==
    /\ Len(b) = 24
    /\ IsBytes(b)
    /\ b[1] = 65
    /\ b[2] = 0 /\ b[3] = 21
    /\ b[2] * U8 + b[3] = Header_len(h)
    /\ b[2] * U8 + b[3] = Len(b) - 3
    /\ b[2] * U8 + b[3] = 4 + 15 + 2
    /\ ((b[4] * U8 + b[5]) * U8 + b[6]) * U8 + b[7] = h.client_msg_id
    /\ Len(h.imei) = 15
    /\ \A i \in 1..15 : b[7 + i] = h.imei[i]
    /\ b[23] * U8 + b[24] = h.disposition_flags

\* b is the MT payload element of p, read back field by field
IsPayloadElement(b, p) ==
    /\ Len(b) = 3 + Len(p.payload)
    /\ b[1] = 66
    /\ b[2] \in 0..(U8 - 1) /\ b[3] \in 0..(U8 - 1)
    /\ b[2] * U8 + b[3] = Len(p.payload)
    /\ b[2] * U8 + b[3] = Payload_len(p)
    /\ SubSeq(b, 4, Len(b)) = p.payload

\* n as k bytes, most significant first
RECURSIVE BigEndian(_, _)
BigEndian(n, k) == IF k = 0 THEN <<>> ELSE BigEndian(n \div U8, k - 1) \o <<n % U8>>

\* the wire bytes of one element
ElementBytes(e) ==
    IF e.kind = "H"
    THEN <<65>> \o BigEndian(21, 2) \o BigEndian(e.client_msg_id, 4) \o e.imei
         \o BigEndian(e.disposition_flags, 2)
    ELSE <<66>> \o BigEndian(Len(e.payload), 2) \o e.payload

RECURSIVE ConcatElements(_, _)
ConcatElements(h, k) ==
    IF k = 0 THEN <<>> ELSE ConcatElements(h, k - 1) \o ElementBytes(h[k].arg)

RECURSIVE SumReturned(_, _)
SumReturned(h, k) == IF k = 0 THEN 0 ELSE SumReturned(h, k - 1) + h[k].res.n

Bit(n, k) == (n \div 2^k) % 2

\* C1: DispositionFlags::encode returns flush_queue*1 + send_ring_alert*2 +
\* update_location*8 + high_priority*16 + assign_mtmsn*32 for every combination
\* of the five flags (all false 0, flush_queue alone 1, send_ring_alert alone 2,
\* assign_mtmsn alone 32, all true 59), with bit 2 and bits 6..15 always 0.
C1_EncodeBitMapping ==
    (Called /\ Last.op = "DispositionFlags::encode") =>
        LET f == Last.arg
            n == Last.res.n
            only(x) == \A g \in {"flush_queue", "send_ring_alert", "update_location",
                                 "high_priority", "assign_mtmsn"} : f[g] = (g = x)
        IN /\ Last.res.tag = "Ok"
           /\ n = BoolOf(f.flush_queue) * 1 + BoolOf(f.send_ring_alert) * 2
                  + BoolOf(f.update_location) * 8 + BoolOf(f.high_priority) * 16
                  + BoolOf(f.assign_mtmsn) * 32
           /\ Bit(n, 0) = BoolOf(f.flush_queue)
           /\ Bit(n, 1) = BoolOf(f.send_ring_alert)
           /\ Bit(n, 3) = BoolOf(f.update_location)
           /\ Bit(n, 4) = BoolOf(f.high_priority)
           /\ Bit(n, 5) = BoolOf(f.assign_mtmsn)
           /\ Bit(n, 2) = 0
           /\ \A k \in 6..15 : Bit(n, k) = 0
           /\ ((\A g \in DOMAIN f : ~f[g]) => n = 0)
           /\ (only("flush_queue") => n = 1)
           /\ (only("send_ring_alert") => n = 2)
           /\ (only("assign_mtmsn") => n = 32)
           /\ ((\A g \in DOMAIN f : f[g]) => n = 59)

C1_Witness ==
    /\ Called /\ Last.op = "DispositionFlags::encode"
    /\ \A g \in DOMAIN Last.arg : Last.arg[g]
    /\ Last.res = Ok(59)

\* C2: Header::write to an in-memory writer appends exactly the 24 bytes 0x41,
\* 0x00 0x15 (= Header::len = 4+15+2), client_msg_id big-endian, the 15 imei
\* bytes in order, disposition_flags big-endian, and returns 24; Header::to_vec
\* returns the same 24 bytes.
C2_HeaderWrite24Bytes ==
    /\ (Called /\ InMemory /\ Last.op = "Header::write") =>
           /\ Last.res = Ok(24)
           /\ KeptEarlier
           /\ IsHeaderElement(Appended, Last.arg)
    /\ (Called /\ Last.op = "Header::to_vec") =>
           /\ Last.res.tag = "Ok"
           /\ IsHeaderElement(vec, Last.arg)
           /\ vec = ElementBytes(Last.arg)

C2_Witness ==
    /\ Len(hist) = 2 /\ InMemory
    /\ hist[1].op = "Header::to_vec" /\ hist[1].arg = HeaderTest
    /\ hist[2].op = "Header::write" /\ hist[2].arg = HeaderTest
    /\ hist[2].res = Ok(24)
    /\ wtr.buf = vec
    /\ vec = <<65, 0, 21, 0, 0, 39, 15, 0, 1, 2, 3, 4, 5, 6, 7, 8, 9, 10, 11, 12, 13, 14,
               39, 15>>

\* C3: for a payload of n < 2^16 bytes, Payload::write to an in-memory writer
\* appends exactly 3+n bytes and returns 3+n: 0x42, n as 2 big-endian bytes
\* (= Payload::len), then the n payload bytes unchanged and in order.
C3_PayloadWriteBytes ==
    (Called /\ InMemory /\ Last.op = "Payload::write" /\ Len(Last.arg.payload) < U16) =>
        /\ Last.res = Ok(3 + Len(Last.arg.payload))
        /\ KeptEarlier
        /\ LET b == Appended IN IsPayloadElement(b, Last.arg)

C3_Witness ==
    /\ Called /\ InMemory /\ Last.op = "Payload::write"
    /\ Len(Last.arg.payload) = U16 - 1
    /\ Last.res = Ok(U16 + 2)
    /\ Len(pre) > 0
    /\ Appended[2] = U8 - 1 /\ Appended[3] = U8 - 1

\* C4: a Payload of more than 1890 bytes (or more than 16 bits can count) is
\* rejected with an error: it is never encoded successfully.
C4_OversizedPayloadRejected ==
    \A i \in 1..Len(hist) :
        (/\ hist[i].op \in {"Payload::write", "InformationElement::write"}
         /\ hist[i].arg.kind = "P"
         /\ Len(hist[i].arg.payload) > MaxPayloadLen)
        => hist[i].res.tag = "Err"

\* C5: encoding is all-or-nothing: when Header::write, Payload::write or
\* InformationElement::write returns an error, the writer holds what it held
\* before the call.
C5_ErrorLeavesWriterUntouched ==
    (/\ Called
     /\ Last.op \in {"Header::write", "Payload::write", "InformationElement::write"}
     /\ Last.res.tag = "Err")
    => wtr.buf = pre

\* C6: no codec operation panics: every call ends with a success value or an
\* error value.
C6_NeverPanics ==
    /\ ~panicked
    /\ \A i \in 1..Len(hist) : hist[i].res.tag \in {"Ok", "Err"}

\* C7: a Header whose imei bytes are not all ASCII digits is never encoded
\* successfully.
C7_NonDigitImeiRejected ==
    \A i \in 1..Len(hist) :
        (/\ hist[i].op \in {"Header::write", "Header::to_vec", "InformationElement::write"}
         /\ hist[i].arg.kind = "H"
         /\ ~IsAsciiDigits(hist[i].arg.imei))
        => hist[i].res.tag # "Ok"

\* C7 (amended): Header::write does not look at the content of imei: on an
\* in-memory writer a Header whose imei bytes are not all ASCII digits is encoded
\* successfully, the 15 bytes appearing unchanged at offsets 7..21 of the element.
C7_NonDigitImeiPassedThrough ==
    (/\ Called /\ InMemory
     /\ Last.op \in {"Header::write", "InformationElement::write"}
     /\ Last.arg.kind = "H"
     /\ ~IsAsciiDigits(Last.arg.imei))
    => /\ Last.res = Ok(24)
       /\ Len(Appended) = 24
       /\ SubSeq(Appended, 8, 22) = Last.arg.imei

C7_Witness ==
    /\ Called /\ InMemory /\ Last.op = "Header::write"
    /\ Last.arg.imei = ImeiTest
    /\ ~IsAsciiDigits(Last.arg.imei)
    /\ Last.res = Ok(24)
    /\ SubSeq(Appended, 8, 22) = <<0, 1, 2, 3, 4, 5, 6, 7, 8, 9, 10, 11, 12, 13, 14>>

\* C8: bit 3 (value 8) of the value DispositionFlags::encode returns is 0 for
\* every combination of the flags.
C8_Bit3Reserved ==
    (Called /\ Last.op = "DispositionFlags::encode") => Bit(Last.res.n, 3) = 0

\* C8 (amended): the reserved bit is bit 2 (value 4): it is 0 for every
\* combination of the flags, while bit 3 carries update_location.
C8_Bit2Reserved ==
    (Called /\ Last.op = "DispositionFlags::encode") =>
        /\ Bit(Last.res.n, 2) = 0
        /\ Bit(Last.res.n, 3) = BoolOf(Last.arg.update_location)

C8_Witness ==
    /\ Called /\ Last.op = "DispositionFlags::encode"
    /\ Last.arg.update_location
    /\ Bit(Last.res.n, 3) = 1 /\ Bit(Last.res.n, 2) = 0

C10_OkCountIsBytesAccepted ==
    (/\ Called
     /\ Last.op \in {"Header::write", "Payload::write", "DispositionFlags::write"}
     /\ Last.res.tag = "Ok")
    => Len(wtr.buf) - Len(pre) = Last.res.n
====
